---- MODULE Spec2Model ----
(***************************************************************************)
(* simplecert: configuration validation (CheckConfig) and the startup      *)
(* sequence (Init, loadStoredCert) of src/simplecert.go.                   *)
(*                                                                         *)
(* A path is the sequence of its components, so filepath.Join appends a    *)
(* component and the empty string is the empty sequence.  A func-typed     *)
(* Config field is TRUE when it is set and FALSE when it is nil.           *)
(***************************************************************************)
EXTENDS Integers, Sequences, FiniteSets, TLC

VARIABLES
    pc,       \* pc[p]: position of caller p inside Init / loadStoredCert
    cfgs,     \* cfgs[p]: the Config object caller p passes to Init (by pointer)
    cfg0,     \* cfg0[p]: the value of that Config when Init was called
    disk0,    \* the file system when Init was called
    c,        \* the package-level `c *Config`: 0 is nil, else the caller whose object it points to
    local,    \* the package-level `local bool`
    disk,     \* disk[dir]: the directory dir of the file system
    lv,       \* lv[p]: the local variables of caller p
    ret,      \* ret[p]: what Init returned to caller p
    trace,    \* every call Init made that leaves the process (file system, ACME, hooks, goroutines)
    logged    \* warnings CheckConfig has printed

vars == <<pc, cfgs, cfg0, disk0, c, local, disk, lv, ret, trace, logged>>

(***************************************************************************)
(* Bounds                                                                  *)
(***************************************************************************)
MaxRenewBefore == 1

(***************************************************************************)
(* Constants of the source                                                 *)
(***************************************************************************)
logFileName          == "simplecert.log"
certResourceFileName == "CertResource.json"
certFileName         == "cert.pem"
keyFileName          == "key.pem"

EC256   == "P256"
EC384   == "P384"
RSA2048 == "2048"
RSA4096 == "4096"
RSA8192 == "8192"

NoErr                 == "nil"
errNoDirectoryURL     == "simplecert: no directory url specified in config"
errNoMail             == "simplecert: no SSLEmail in config in config"
errNoDomains          == "simplecert: no domains specified in config"
errNoChallenge        == "simplecert: no challenge method specified in config"
errNoCacheDir         == "simplecert: no cache directory specified in config"
errNoRenewBefore      == "simplecert: no renew before value set in config"
errNoCheckInterval    == "simplecert: no check interval set in config"
errNoCacheDirPerm     == "simplecert: no cache directory permission specified in config"
errUnsupportedKeyType == "simplecert: unsupported key type specified in config"

supportedKeyTypes_NoEC384 == {EC256, RSA2048, RSA4096, RSA8192}

supportedKeyTypes == {EC256, EC384, RSA2048, RSA4096, RSA8192}

Range(s) == {s[i] : i \in 1..Len(s)}

(***************************************************************************)
(* Config                                                                  *)
(***************************************************************************)
Default ==
    [ RenewBefore              |-> 30 * 24,
      CheckInterval            |-> 48,
      SSLEmail                 |-> "",
      DirectoryURL             |-> "https://acme-v02.api.letsencrypt.org/directory",
      HTTPAddress              |-> ":80",
      TLSAddress               |-> ":443",
      CacheDirPerm             |-> 448,
      Domains                  |-> <<>>,
      CacheDir                 |-> <<"letsencrypt">>,
      DNSProvider              |-> "",
      Local                    |-> FALSE,
      UpdateHosts              |-> TRUE,
      KeyType                  |-> RSA2048,
      WillRenewCertificate     |-> FALSE,
      DidRenewCertificate      |-> FALSE,
      FailedToRenewCertificate |-> FALSE ]

DomainLists == {<<>>, <<"a.com">>, <<"a.com", "b.com">>}

\* every Config the validator is applied to
AllConfigs ==
    [ RenewBefore              : 0..MaxRenewBefore,
      CheckInterval            : {0, 48},
      SSLEmail                 : {"", "admin@a.com"},
      DirectoryURL             : {"", Default.DirectoryURL},
      HTTPAddress              : {"", ":80"},
      TLSAddress               : {"", ":443"},
      CacheDirPerm             : {0, 448},
      Domains                  : {<<>>, <<"a.com">>},
      CacheDir                 : {<<>>, <<"letsencrypt">>},
      DNSProvider              : {"", "cloudflare"},
      Local                    : BOOLEAN,
      UpdateHosts              : {TRUE},
      KeyType                  : {EC256, EC384, RSA2048, RSA4096, RSA8192, "", "1024"},
      WillRenewCertificate     : BOOLEAN,
      DidRenewCertificate      : BOOLEAN,
      FailedToRenewCertificate : BOOLEAN ]

CheckConfig(cfg) ==
    IF cfg.CacheDir = <<>> THEN errNoCacheDir
    ELSE IF Len(cfg.Domains) = 0 THEN errNoDomains
    ELSE IF ~cfg.Local /\ cfg.SSLEmail = "" THEN errNoMail
    ELSE IF cfg.DirectoryURL = "" THEN errNoDirectoryURL
    ELSE IF cfg.DNSProvider = "" /\ cfg.HTTPAddress = "" /\ cfg.TLSAddress = "" THEN errNoChallenge
    ELSE IF cfg.RenewBefore = 0 THEN errNoCacheDir
    ELSE IF cfg.CheckInterval = 0 THEN errNoCheckInterval
    ELSE IF cfg.CacheDirPerm = 0 THEN errNoCacheDirPerm
    ELSE IF cfg.KeyType \notin supportedKeyTypes THEN errUnsupportedKeyType
    ELSE NoErr

\* the warnings CheckConfig prints once every check has passed
CheckConfigWarnings(cfg) ==
    IF CheckConfig(cfg) # NoErr THEN {}
    ELSE {"WillRenewCertificate" : x \in {y \in {1} :
              ~cfg.WillRenewCertificate /\ (cfg.HTTPAddress # "" \/ cfg.TLSAddress # "")}}
         \cup
         {"DidRenewCertificate" : x \in {y \in {1} :
              ~cfg.DidRenewCertificate /\ (cfg.HTTPAddress # "" \/ cfg.TLSAddress # "")}}
         \cup
         {"FailedToRenewCertificate" : x \in {y \in {1} : ~cfg.FailedToRenewCertificate}}

(***************************************************************************)
(* File system.  A directory holds the certificate file, the key file, the *)
(* certificate resource record and the log file.  A certificate is known   *)
(* by the domains it was issued for and by whether its remaining validity  *)
(* has fallen below the renew-before window (due).                         *)
(***************************************************************************)
Procs == {1, 2}

Join(dir, name) == Append(dir, name)

Dir(path) == SubSeq(path, 1, Len(path) - 1)

NoCert == [present |-> FALSE, doms |-> {}, due |-> FALSE]

Cert(doms, due) == [present |-> TRUE, doms |-> doms, due |-> due]

NoDir == [exists |-> FALSE, cert |-> NoCert, key |-> FALSE, res |-> "missing", log |-> FALSE]

EmptyDir == [NoDir EXCEPT !.exists = TRUE]

CachedDir(doms, due, res) ==
    [exists |-> TRUE, cert |-> Cert(doms, due), key |-> TRUE, res |-> res, log |-> TRUE]

BaseDirs == {<<"letsencrypt">>, <<"certs">>}

Dirs ==
    BaseDirs
    \cup {Join(b, "local") : b \in BaseDirs}
    \cup {Join(Join(b, "local"), "local") : b \in BaseDirs}

NilReloader == [nil |-> TRUE, certPath |-> <<>>, keyPath |-> <<>>, doms |-> {}]

NoRes == [state |-> "missing", cert |-> NoCert]

NoLocals ==
    [ certFilePath       |-> <<>>,
      keyFilePath        |-> <<>>,
      certDomainsChanged |-> FALSE,
      logFile            |-> <<>>,
      b                  |-> NoRes,
      cr                 |-> NoCert,
      cert               |-> NoCert,
      certReloader       |-> NilReloader,
      errReloader        |-> NoErr,
      errRenew           |-> NoErr ]

NoRet == [reloader |-> NilReloader, err |-> NoErr]

Ev(p, op, path, doms, ok) ==
    [p |-> p, op |-> op, path |-> path, doms |-> doms, ok |-> ok, arg |-> NoErr]

\* the Config the package-level pointer c refers to
C == cfgs[c]

\* ensureCacheDirExists(dir): creates the directory when it is missing
ensureCacheDirExists(d, dir) ==
    IF d[dir].exists THEN d ELSE [d EXCEPT ![dir] = EmptyDir]

\* certCached(dir): all three cached files exist
certCached(d, dir) ==
    d[dir].exists /\ d[dir].cert.present /\ d[dir].key /\ d[dir].res # "missing"

\* domainsChanged(certFilePath, keyFilePath): the cached certificate's names
\* differ, as a set, from c.Domains
domainsChanged(d, certPath, keyPath, domains) ==
    d[Dir(certPath)].cert.doms # Range(domains)

\* createLocalCert(certFilePath, keyFilePath): a self-signed certificate for c.Domains
createLocalCert(d, certPath, keyPath, domains) ==
    [d EXCEPT ![Dir(certPath)].cert = Cert(Range(domains), FALSE),
              ![Dir(keyPath)].key   = TRUE]

\* saveCertToDisk(cert, dir): certificate, key and resource record
saveCertToDisk(d, cert, dir) ==
    [d EXCEPT ![dir].cert = cert, ![dir].key = TRUE, ![dir].res = "ok"]

\* NewCertReloader(certFilePath, keyFilePath, logFile, cleanup): every result
\* the call can have; it fails when a file is missing and may fail otherwise
NewCertReloader(d, certPath, keyPath) ==
    {[reloader |-> NilReloader, err |-> "simplecert: failed to load key pair"]}
    \cup
    { [reloader |-> [nil |-> FALSE, certPath |-> certPath, keyPath |-> keyPath,
                     doms |-> d[Dir(certPath)].cert.doms],
       err |-> NoErr] :
      x \in {y \in {1} : d[Dir(certPath)].cert.present /\ d[Dir(keyPath)].key} }

\* getACMECertResource(cr)
getACMECertResource(cr) == cr

\* renew(cert): every outcome of the startup renewal check.  A certificate
\* that is not due is left alone; one that is due is obtained again for its
\* own domains and saved to c.CacheDir, or the renewal fails
renew(d, cert, dir) ==
    IF ~cert.due
    THEN {[err |-> NoErr, disk |-> d, renewed |-> FALSE]}
    ELSE {[err |-> NoErr, disk |-> saveCertToDisk(d, Cert(cert.doms, FALSE), dir),
           renewed |-> TRUE],
          [err |-> "acme: renewal failed", disk |-> d, renewed |-> FALSE]}

(***************************************************************************)
(* Control flow of Init and loadStoredCert: where each branch goes.  A     *)
(* position is named after the source line of the statement it is at.      *)
(***************************************************************************)
\* if err != nil { return nil, err }   after CheckConfig
AfterCheckConfig_Ignored(err) == "L48"

AfterCheckConfig(err) == IF err # NoErr THEN "return" ELSE "L48"

\* c.CacheDir = filepath.Join(c.CacheDir, "local")
LocalCacheDir_NoSubfolder(dir) == dir

LocalCacheDir(dir) == Join(dir, "local")

\* if c.Local { ... } else the ACME path
AfterLogFile(isLocal) == IF isLocal THEN "L71" ELSE "L107"

\* local mode: certCached / domainsChanged decide on createLocalCert
LocalAfterCertCached(cached) == IF cached THEN "L82" ELSE "L88"

LocalAfterDomainsChanged(changed) == IF changed THEN "L84" ELSE "L92"

\* if certCached(c.CacheDir) { ... }
AfterCertCached(cached) == IF cached THEN "L112" ELSE "L128"

\* if domainsChanged(...) { goto obtainNewCert }; return loadStoredCert(...)
AfterDomainsChanged_NoDrift(changed) == "L187"

AfterDomainsChanged_AlwaysObtain(changed) == "L128"

AfterDomainsChanged(changed) == IF changed THEN "L128" ELSE "L187"

\* cert, err := client.Certificate.Obtain(request); if err != nil { ... }
AfterObtain_ErrIgnored(ok, certDomainsChanged) == "L165"

AfterObtain_NoFallback(ok, certDomainsChanged) == IF ok THEN "L165" ELSE "return"

AfterObtain_NoSave(ok, certDomainsChanged) ==
    IF ok THEN "L173"
    ELSE IF certDomainsChanged THEN "L187" ELSE "return"

AfterObtain(ok, certDomainsChanged) ==
    IF ok THEN "L165"
    ELSE IF certDomainsChanged THEN "L187" ELSE "return"

\* err = saveCertToDisk(cert, c.CacheDir); if err != nil { return }
AfterSave(ok) == IF ok THEN "L173" ELSE "return"

\* b, err := os.ReadFile(...); if err != nil { return nil, err }
AfterReadFile(ok) == IF ok THEN "L194" ELSE "return"

\* err = sonnet.Unmarshal(b, &cr); if err != nil { return nil, err }
AfterUnmarshal_ErrIgnored(ok) == "L203"

AfterUnmarshal(ok) == IF ok THEN "L203" ELSE "return"

\* the statement after the reloader is built in loadStoredCert: renew(cert)
AfterLoadReloader_NoRenew == "L222"

AfterLoadReloader == "L208"

\* errRenew := renew(cert); if errRenew != nil { handler or return }
AfterRenew(errRenew) == IF errRenew # NoErr THEN "L211" ELSE "L222"

AfterRenewFailed_NoReturn(handlerSet) == "L222"

AfterRenewFailed(handlerSet) == IF handlerSet THEN "L222" ELSE "return"

(***************************************************************************)
(* Actions                                                                 *)
(***************************************************************************)
Goto(p, l) == pc' = [pc EXCEPT ![p] = l]

Return(p, reloader, err) ==
    /\ pc' = [pc EXCEPT ![p] = "done"]
    /\ ret' = [ret EXCEPT ![p] = [reloader |-> reloader, err |-> err]]

\* Goto(p, l), or the return of (nil, err) when the branch taken is the return
GotoOrFail(p, l, err) ==
    IF l = "return"
    THEN Return(p, NilReloader, err)
    ELSE Goto(p, l) /\ UNCHANGED ret

Did(e) == trace' = Append(trace, e)

\* CheckConfig applied to a Config, on its own
Validate(p) ==
    /\ pc[p] = "CheckConfig"
    /\ Return(p, NilReloader, CheckConfig(cfgs[p]))
    /\ logged' = logged \cup CheckConfigWarnings(cfgs[p])
    /\ UNCHANGED <<cfgs, cfg0, disk0, c, local, disk, lv, trace>>

\* Init: err := CheckConfig(cfg); if err != nil { return nil, err }; c = cfg
InitCheckConfig(p) ==
    /\ pc[p] = "Init"
    /\ LET err == CheckConfig(cfgs[p]) IN
       /\ GotoOrFail(p, AfterCheckConfig(err), err)
       /\ c' = IF AfterCheckConfig(err) = "return" THEN c ELSE p
    /\ logged' = logged \cup CheckConfigWarnings(cfgs[p])
    /\ UNCHANGED <<cfgs, cfg0, disk0, local, disk, lv, trace>>

\* ensureCacheDirExists(c.CacheDir)
InitEnsureCacheDir(p) ==
    /\ pc[p] = "L48"
    /\ disk' = ensureCacheDirExists(disk, C.CacheDir)
    /\ Did(Ev(p, "ensureCacheDirExists", C.CacheDir, {}, TRUE))
    /\ Goto(p, "L51")
    /\ UNCHANGED <<cfgs, cfg0, disk0, c, local, lv, ret, logged>>

\* logFile, err := os.OpenFile(filepath.Join(c.CacheDir, logFileName), ...)
InitOpenLogFile(p) ==
    /\ pc[p] = "L51"
    /\ \E ok \in BOOLEAN :
         /\ Did(Ev(p, "os.OpenFile", Join(C.CacheDir, logFileName), {}, ok))
         /\ IF ok
            THEN /\ disk' = [disk EXCEPT ![C.CacheDir].log = TRUE]
                 /\ lv' = [lv EXCEPT ![p].logFile = Join(C.CacheDir, logFileName)]
                 /\ Goto(p, "L59")
                 /\ UNCHANGED ret
            ELSE /\ Return(p, NilReloader, "simplecert: failed to create logfile")
                 /\ UNCHANGED <<disk, lv>>
    /\ UNCHANGED <<cfgs, cfg0, disk0, c, local, logged>>

\* if c.Local { local = true; c.CacheDir = filepath.Join(c.CacheDir, "local") }
\* else certFilePath, keyFilePath of the ACME path
InitBranchLocal(p) ==
    /\ pc[p] = "L59"
    /\ IF C.Local
       THEN /\ local' = TRUE
            /\ cfgs' = [cfgs EXCEPT ![c].CacheDir = LocalCacheDir(C.CacheDir)]
            /\ UNCHANGED lv
       ELSE /\ lv' = [lv EXCEPT ![p].certFilePath = Join(C.CacheDir, certFileName),
                                ![p].keyFilePath  = Join(C.CacheDir, keyFileName),
                                ![p].certDomainsChanged = FALSE]
            /\ UNCHANGED <<local, cfgs>>
    /\ Goto(p, AfterLogFile(C.Local))
    /\ UNCHANGED <<cfg0, disk0, c, disk, ret, trace, logged>>

\* local mode: ensureCacheDirExists(c.CacheDir); certFilePath, keyFilePath
LocalEnsureCacheDir(p) ==
    /\ pc[p] = "L71"
    /\ disk' = ensureCacheDirExists(disk, C.CacheDir)
    /\ Did(Ev(p, "ensureCacheDirExists", C.CacheDir, {}, TRUE))
    /\ lv' = [lv EXCEPT ![p].certFilePath = Join(C.CacheDir, certFileName),
                        ![p].keyFilePath  = Join(C.CacheDir, keyFileName)]
    /\ Goto(p, "L79")
    /\ UNCHANGED <<cfgs, cfg0, disk0, c, local, ret, logged>>

\* local mode: if certCached(c.CacheDir)
LocalCertCached(p) ==
    /\ pc[p] = "L79"
    /\ Did(Ev(p, "certCached", C.CacheDir, {}, certCached(disk, C.CacheDir)))
    /\ Goto(p, LocalAfterCertCached(certCached(disk, C.CacheDir)))
    /\ UNCHANGED <<cfgs, cfg0, disk0, c, local, disk, lv, ret, logged>>

\* local mode: if domainsChanged(certFilePath, keyFilePath)
LocalDomainsChanged(p) ==
    /\ pc[p] = "L82"
    /\ LET changed == domainsChanged(disk, lv[p].certFilePath, lv[p].keyFilePath, C.Domains) IN
       /\ Did(Ev(p, "domainsChanged", lv[p].certFilePath, Range(C.Domains), changed))
       /\ Goto(p, LocalAfterDomainsChanged(changed))
    /\ UNCHANGED <<cfgs, cfg0, disk0, c, local, disk, lv, ret, logged>>

\* local mode: createLocalCert(certFilePath, keyFilePath), at either call
LocalCreateCert(p) ==
    /\ pc[p] \in {"L84", "L88"}
    /\ disk' = createLocalCert(disk, lv[p].certFilePath, lv[p].keyFilePath, C.Domains)
    /\ Did(Ev(p, "createLocalCert", lv[p].certFilePath, Range(C.Domains), TRUE))
    /\ Goto(p, "L92")
    /\ UNCHANGED <<cfgs, cfg0, disk0, c, local, lv, ret, logged>>

\* local mode: if c.UpdateHosts { updateHosts() }
LocalUpdateHosts(p) ==
    /\ pc[p] = "L92"
    /\ IF C.UpdateHosts
       THEN Did(Ev(p, "updateHosts", <<>>, Range(C.Domains), TRUE))
       ELSE UNCHANGED trace
    /\ Goto(p, "L97")
    /\ UNCHANGED <<cfgs, cfg0, disk0, c, local, disk, lv, ret, logged>>

\* local mode: return NewCertReloader(certFilePath, keyFilePath, logFile, cleanup)
LocalReturn(p) ==
    /\ pc[p] = "L97"
    /\ \E r \in NewCertReloader(disk, lv[p].certFilePath, lv[p].keyFilePath) :
         /\ Did(Ev(p, "NewCertReloader", lv[p].certFilePath, r.reloader.doms, r.err = NoErr))
         /\ Return(p, r.reloader, r.err)
    /\ UNCHANGED <<cfgs, cfg0, disk0, c, local, disk, lv, logged>>

\* if certCached(c.CacheDir)
InitCertCached(p) ==
    /\ pc[p] = "L107"
    /\ Did(Ev(p, "certCached", C.CacheDir, {}, certCached(disk, C.CacheDir)))
    /\ Goto(p, AfterCertCached(certCached(disk, C.CacheDir)))
    /\ UNCHANGED <<cfgs, cfg0, disk0, c, local, disk, lv, ret, logged>>

\* if domainsChanged(certFilePath, keyFilePath) { certDomainsChanged = true; goto obtainNewCert }
\* return loadStoredCert(...)
InitDomainsChanged(p) ==
    /\ pc[p] = "L112"
    /\ LET changed == domainsChanged(disk, lv[p].certFilePath, lv[p].keyFilePath, C.Domains) IN
       /\ Did(Ev(p, "domainsChanged", lv[p].certFilePath, Range(C.Domains), changed))
       /\ lv' = [lv EXCEPT ![p].certDomainsChanged = changed]
       /\ Goto(p, AfterDomainsChanged(changed))
    /\ UNCHANGED <<cfgs, cfg0, disk0, c, local, disk, ret, logged>>

\* u, err := getUser()
InitGetUser(p) ==
    /\ pc[p] = "L128"
    /\ \E ok \in BOOLEAN :
         /\ Did(Ev(p, "getUser", C.CacheDir, {}, ok))
         /\ GotoOrFail(p, IF ok THEN "L134" ELSE "return", "simplecert: failed to get ACME user")
    /\ UNCHANGED <<cfgs, cfg0, disk0, c, local, disk, lv, logged>>

\* client, err := createClient(u, c.DNSServers)
InitCreateClient(p) ==
    /\ pc[p] = "L134"
    /\ \E ok \in BOOLEAN :
         /\ Did(Ev(p, "createClient", <<>>, {}, ok))
         /\ GotoOrFail(p, IF ok THEN "L148" ELSE "return", "simplecert: failed to create lego.Client")
    /\ UNCHANGED <<cfgs, cfg0, disk0, c, local, disk, lv, logged>>

\* cert, err := client.Certificate.Obtain(ObtainRequest{Domains: c.Domains, Bundle: true})
InitObtain(p) ==
    /\ pc[p] = "L148"
    /\ \E ok \in BOOLEAN :
         /\ Did(Ev(p, "Obtain", <<>>, Range(C.Domains), ok))
         /\ lv' = [lv EXCEPT ![p].cert = IF ok THEN Cert(Range(C.Domains), FALSE) ELSE @]
         /\ GotoOrFail(p, AfterObtain(ok, lv[p].certDomainsChanged),
                       "simplecert: failed to obtain cert")
    /\ UNCHANGED <<cfgs, cfg0, disk0, c, local, disk, logged>>

\* err = saveCertToDisk(cert, c.CacheDir)
InitSaveCertToDisk(p) ==
    /\ pc[p] = "L165"
    /\ \E ok \in BOOLEAN :
         /\ Did(Ev(p, "saveCertToDisk", C.CacheDir, lv[p].cert.doms, ok))
         /\ disk' = IF ok THEN saveCertToDisk(disk, lv[p].cert, C.CacheDir) ELSE disk
         /\ GotoOrFail(p, AfterSave(ok), "simplecert: failed to write cert to disk")
    /\ UNCHANGED <<cfgs, cfg0, disk0, c, local, lv, logged>>

\* go renewalRoutine(cert)
InitRenewalRoutine(p) ==
    /\ pc[p] = "L173"
    /\ Did(Ev(p, "go renewalRoutine", <<>>, lv[p].cert.doms, TRUE))
    /\ Goto(p, "L175")
    /\ UNCHANGED <<cfgs, cfg0, disk0, c, local, disk, lv, ret, logged>>

\* return NewCertReloader(certFilePath, keyFilePath, logFile, cleanup)
InitReturn(p) ==
    /\ pc[p] = "L175"
    /\ \E r \in NewCertReloader(disk, lv[p].certFilePath, lv[p].keyFilePath) :
         /\ Did(Ev(p, "NewCertReloader", lv[p].certFilePath, r.reloader.doms, r.err = NoErr))
         /\ Return(p, r.reloader, r.err)
    /\ UNCHANGED <<cfgs, cfg0, disk0, c, local, disk, lv, logged>>

\* loadStoredCert: b, err := os.ReadFile(filepath.Join(c.CacheDir, certResourceFileName))
LoadReadFile(p) ==
    /\ pc[p] = "L187"
    /\ LET st == disk[C.CacheDir].res
           ok == st \in {"ok", "bad"} IN
       /\ Did(Ev(p, "os.ReadFile", Join(C.CacheDir, certResourceFileName), {}, ok))
       /\ lv' = [lv EXCEPT ![p].b = IF ok THEN [state |-> st, cert |-> disk[C.CacheDir].cert]
                                         ELSE @]
       /\ GotoOrFail(p, AfterReadFile(ok),
                     "simplecert: failed to read CertResource.json from disk")
    /\ UNCHANGED <<cfgs, cfg0, disk0, c, local, disk, logged>>

\* loadStoredCert: err = sonnet.Unmarshal(b, &cr)
LoadUnmarshal(p) ==
    /\ pc[p] = "L194"
    /\ LET ok == lv[p].b.state = "ok" IN
       /\ lv' = [lv EXCEPT ![p].cr = IF ok THEN lv[p].b.cert ELSE @]
       /\ GotoOrFail(p, AfterUnmarshal(ok),
                     "simplecert: failed to unmarshal certificate resource")
    /\ UNCHANGED <<cfgs, cfg0, disk0, c, local, disk, trace, logged>>

\* loadStoredCert: certReloader, errReloader = NewCertReloader(...); cert = getACMECertResource(cr)
LoadNewCertReloader(p) ==
    /\ pc[p] = "L203"
    /\ \E r \in NewCertReloader(disk, lv[p].certFilePath, lv[p].keyFilePath) :
         /\ Did(Ev(p, "NewCertReloader", lv[p].certFilePath, r.reloader.doms, r.err = NoErr))
         /\ lv' = [lv EXCEPT ![p].certReloader = r.reloader,
                             ![p].errReloader  = r.err,
                             ![p].cert         = getACMECertResource(lv[p].cr)]
    /\ Goto(p, AfterLoadReloader)
    /\ UNCHANGED <<cfgs, cfg0, disk0, c, local, disk, ret, logged>>

\* loadStoredCert: errRenew := renew(cert)
LoadRenew(p) ==
    /\ pc[p] = "L208"
    /\ \E r \in renew(disk, lv[p].cert, C.CacheDir) :
         /\ Did(Ev(p, "renew", C.CacheDir, lv[p].cert.doms, r.err = NoErr))
         /\ disk' = r.disk
         /\ lv' = [lv EXCEPT ![p].errRenew = r.err]
         /\ Goto(p, AfterRenew(r.err))
    /\ UNCHANGED <<cfgs, cfg0, disk0, c, local, ret, logged>>

\* loadStoredCert: if c.FailedToRenewCertificate != nil { c.FailedToRenewCertificate(errRenew) }
\* else { return nil, errors.New(...) }
LoadRenewFailed(p) ==
    /\ pc[p] = "L211"
    /\ IF C.FailedToRenewCertificate
       THEN Did([Ev(p, "FailedToRenewCertificate", <<>>, {}, TRUE) EXCEPT !.arg = lv[p].errRenew])
       ELSE UNCHANGED trace
    /\ GotoOrFail(p, AfterRenewFailed(C.FailedToRenewCertificate),
                  "simplecert: failed to renew cached cert on startup and no failedToRenewCert handler is configured")
    /\ UNCHANGED <<cfgs, cfg0, disk0, c, local, disk, lv, logged>>

\* loadStoredCert: go renewalRoutine(cert)
LoadRenewalRoutine(p) ==
    /\ pc[p] = "L222"
    /\ Did(Ev(p, "go renewalRoutine", <<>>, lv[p].cert.doms, TRUE))
    /\ Goto(p, "L224")
    /\ UNCHANGED <<cfgs, cfg0, disk0, c, local, disk, lv, ret, logged>>

\* loadStoredCert: return certReloader, errReloader
LoadReturn(p) ==
    /\ pc[p] = "L224"
    /\ Return(p, lv[p].certReloader, lv[p].errReloader)
    /\ UNCHANGED <<cfgs, cfg0, disk0, c, local, disk, lv, trace, logged>>

(***************************************************************************)
(* Initial states and specifications                                       *)
(***************************************************************************)
\* the Configs Init is called with: Default with the fields changed that
\* decide the path Init takes
InitConfigs ==
    { [Default EXCEPT !.CacheDir = dir, !.Domains = doms, !.SSLEmail = mail,
                      !.Local = isLocal, !.RenewBefore = rb,
                      !.FailedToRenewCertificate = h, !.UpdateHosts = uh] :
      dir \in {<<>>, <<"letsencrypt">>}, doms \in DomainLists,
      mail \in {"", "admin@a.com"}, isLocal \in BOOLEAN, rb \in 0..MaxRenewBefore,
      h \in BOOLEAN, uh \in BOOLEAN }

CertDomains == {{"a.com"}, {"a.com", "b.com"}}

\* what the cache directory can hold when the process starts
InitCacheDirs ==
    {NoDir, EmptyDir, CachedDir({"a.com"}, FALSE, "missing")}
    \cup {CachedDir(d, due, res) :
            d \in CertDomains, due \in BOOLEAN, res \in {"ok", "bad", "unreadable"}}

\* what its local subdirectory can hold
InitLocalDirs ==
    {NoDir, EmptyDir, CachedDir({"a.com"}, FALSE, "missing")}
    \cup {CachedDir(d, FALSE, "ok") : d \in CertDomains}

InitDisks ==
    { [d \in Dirs |-> IF d = <<"letsencrypt">> THEN base
                      ELSE IF d = <<"letsencrypt", "local">> THEN sub
                      ELSE NoDir] :
      base \in InitCacheDirs, sub \in InitLocalDirs }

DiskOk(d) == d[<<"letsencrypt", "local">>].exists => d[<<"letsencrypt">>].exists

Idle == [Default EXCEPT !.CacheDir = <<"certs">>]

InitRest ==
    /\ cfg0 = cfgs
    /\ disk0 = disk
    /\ c = 0
    /\ local = FALSE
    /\ lv = [p \in Procs |-> NoLocals]
    /\ ret = [p \in Procs |-> NoRet]
    /\ trace = <<>>
    /\ logged = {}

\* one call of Init
Init ==
    /\ pc = [p \in Procs |-> IF p = 1 THEN "Init" ELSE "idle"]
    /\ \E cfg \in InitConfigs : cfgs = [p \in Procs |-> IF p = 1 THEN cfg ELSE Idle]
    /\ disk \in {d \in InitDisks : DiskOk(d)}
    /\ InitRest

Next ==
    \E p \in Procs :
        \/ InitCheckConfig(p)
        \/ InitEnsureCacheDir(p)
        \/ InitOpenLogFile(p)
        \/ InitBranchLocal(p)
        \/ LocalEnsureCacheDir(p)
        \/ LocalCertCached(p)
        \/ LocalDomainsChanged(p)
        \/ LocalCreateCert(p)
        \/ LocalUpdateHosts(p)
        \/ LocalReturn(p)
        \/ InitCertCached(p)
        \/ InitDomainsChanged(p)
        \/ InitGetUser(p)
        \/ InitCreateClient(p)
        \/ InitObtain(p)
        \/ InitSaveCertToDisk(p)
        \/ InitRenewalRoutine(p)
        \/ InitReturn(p)
        \/ LoadReadFile(p)
        \/ LoadUnmarshal(p)
        \/ LoadNewCertReloader(p)
        \/ LoadRenew(p)
        \/ LoadRenewFailed(p)
        \/ LoadRenewalRoutine(p)
        \/ LoadReturn(p)

Spec == Init /\ [][Next]_vars

\* two calls of Init in one process, with different cache directories and
\* domains, their statements interleaved in any order
InitTwoConfigs ==
    { <<[Default EXCEPT !.CacheDir = <<"letsencrypt">>, !.Domains = <<"a.com">>,
                        !.SSLEmail = "admin@a.com", !.RenewBefore = MaxRenewBefore,
                        !.Local = isLocal, !.FailedToRenewCertificate = h],
        [Default EXCEPT !.CacheDir = <<"certs">>, !.Domains = <<"a.com", "b.com">>,
                        !.SSLEmail = "admin@b.com", !.RenewBefore = MaxRenewBefore,
                        !.FailedToRenewCertificate = h]>> :
      isLocal \in BOOLEAN, h \in BOOLEAN }

InitTwoDisks ==
    { [d \in Dirs |-> IF d = <<"letsencrypt">> THEN one[1]
                      ELSE IF d = <<"letsencrypt", "local">> THEN one[2]
                      ELSE IF d = <<"certs">> THEN two
                      ELSE NoDir] :
      one \in {<<NoDir, NoDir>>,
               <<CachedDir({"a.com"}, TRUE, "ok"), NoDir>>,
               <<CachedDir({"a.com"}, TRUE, "ok"), CachedDir({"a.com"}, FALSE, "ok")>>},
      two \in {NoDir, CachedDir({"a.com", "b.com"}, FALSE, "ok")} }

InitTwo ==
    /\ pc = [p \in Procs |-> "Init"]
    /\ cfgs \in InitTwoConfigs
    /\ disk \in InitTwoDisks
    /\ InitRest

\* one statement of caller p
Step(p) ==
    \/ InitCheckConfig(p)
    \/ InitEnsureCacheDir(p)
    \/ InitOpenLogFile(p)
    \/ InitBranchLocal(p)
    \/ LocalEnsureCacheDir(p)
    \/ LocalCertCached(p)
    \/ LocalDomainsChanged(p)
    \/ LocalCreateCert(p)
    \/ LocalUpdateHosts(p)
    \/ LocalReturn(p)
    \/ InitCertCached(p)
    \/ InitDomainsChanged(p)
    \/ InitGetUser(p)
    \/ InitCreateClient(p)
    \/ InitObtain(p)
    \/ InitSaveCertToDisk(p)
    \/ InitRenewalRoutine(p)
    \/ InitReturn(p)
    \/ LoadReadFile(p)
    \/ LoadUnmarshal(p)
    \/ LoadNewCertReloader(p)
    \/ LoadRenew(p)
    \/ LoadRenewFailed(p)
    \/ LoadRenewalRoutine(p)
    \/ LoadReturn(p)

\* caller 1 stands right after `c = cfg` (line 45) or has returned
Caller1Parked == pc[1] \in {"L48", "done"}

\* the schedules considered: caller 1 runs freely; caller 2 runs while caller
\* 1 is parked
NextTwo ==
    \/ \E p \in {1} :
          \/ InitCheckConfig(p)
          \/ InitEnsureCacheDir(p)
          \/ InitOpenLogFile(p)
          \/ InitBranchLocal(p)
          \/ LocalEnsureCacheDir(p)
          \/ LocalCertCached(p)
          \/ LocalDomainsChanged(p)
          \/ LocalCreateCert(p)
          \/ LocalUpdateHosts(p)
          \/ LocalReturn(p)
          \/ InitCertCached(p)
          \/ InitDomainsChanged(p)
          \/ InitGetUser(p)
          \/ InitCreateClient(p)
          \/ InitObtain(p)
          \/ InitSaveCertToDisk(p)
          \/ InitRenewalRoutine(p)
          \/ InitReturn(p)
          \/ LoadReadFile(p)
          \/ LoadUnmarshal(p)
          \/ LoadNewCertReloader(p)
          \/ LoadRenew(p)
          \/ LoadRenewFailed(p)
          \/ LoadRenewalRoutine(p)
          \/ LoadReturn(p)
    \/ Caller1Parked /\ Step(2)

SpecTwo == InitTwo /\ [][NextTwo]_vars

\* CheckConfig applied to every Config of AllConfigs
InitValidate ==
    /\ pc = [p \in Procs |-> IF p = 1 THEN "CheckConfig" ELSE "idle"]
    /\ \E cfg \in AllConfigs : cfgs = [p \in Procs |-> IF p = 1 THEN cfg ELSE Idle]
    /\ disk = [d \in Dirs |-> NoDir]
    /\ InitRest

NextValidate == \E p \in Procs : Validate(p)

SpecValidate == InitValidate /\ [][NextValidate]_vars

(***************************************************************************)
(* Properties                                                              *)
(***************************************************************************)
Events(op) == {i \in 1..Len(trace) : trace[i].op = op}

EventsOk(op, ok) == {i \in Events(op) : trace[i].ok = ok}

Returned == pc[1] = "done"

\* the error of the first violated rule, in the order the rules are documented
FirstViolatedRule(cfg) ==
    IF cfg.CacheDir = <<>> THEN errNoCacheDir
    ELSE IF cfg.Domains = <<>> THEN errNoDomains
    ELSE IF cfg.SSLEmail = "" /\ ~cfg.Local THEN errNoMail
    ELSE IF cfg.DirectoryURL = "" THEN errNoDirectoryURL
    ELSE IF {cfg.DNSProvider, cfg.HTTPAddress, cfg.TLSAddress} = {""} THEN errNoChallenge
    ELSE IF cfg.RenewBefore = 0 THEN errNoRenewBefore
    ELSE IF cfg.CheckInterval = 0 THEN errNoCheckInterval
    ELSE IF cfg.CacheDirPerm = 0 THEN errNoCacheDirPerm
    ELSE IF cfg.KeyType \notin {"P256", "P384", "2048", "4096", "8192"} THEN errUnsupportedKeyType
    ELSE NoErr

\* C1: for a Config that violates a rule, CheckConfig returns the error of the
\* first violated rule; a Config whose only violation is RenewBefore = 0 gets
\* the renew-before error
C1_FirstViolatedRuleReported ==
    Returned => ret[1].err = FirstViolatedRule(cfg0[1])

\* the nine conditions of a valid Config
ValidConfig(cfg) ==
    /\ cfg.CacheDir # <<>>
    /\ cfg.Domains # <<>>
    /\ (cfg.SSLEmail # "" \/ cfg.Local)
    /\ cfg.DirectoryURL # ""
    /\ (cfg.DNSProvider # "" \/ cfg.HTTPAddress # "" \/ cfg.TLSAddress # "")
    /\ cfg.RenewBefore # 0
    /\ cfg.CheckInterval # 0
    /\ cfg.CacheDirPerm # 0
    /\ cfg.KeyType \in {"P256", "P384", "2048", "4096", "8192"}

\* C2: CheckConfig returns nil exactly for the Configs that meet the nine
\* conditions, whatever hooks are set; unset hooks only add warnings, and only
\* to a Config that is accepted
C2_NilIffValid ==
    Returned =>
        /\ ret[1].err = NoErr <=> ValidConfig(cfg0[1])
        /\ ret[1].err # NoErr => logged = {}
        /\ ~cfg0[1].FailedToRenewCertificate /\ ValidConfig(cfg0[1])
               => "FailedToRenewCertificate" \in logged

C2_Witness ==
    /\ Returned
    /\ ret[1].err = NoErr
    /\ ~cfg0[1].WillRenewCertificate
    /\ ~cfg0[1].DidRenewCertificate
    /\ ~cfg0[1].FailedToRenewCertificate
    /\ cfg0[1].KeyType = "P384"
    /\ Cardinality(logged) = 3

Rejected == ~ValidConfig(cfg0[1])

\* C3: when CheckConfig rejects the Config, Init returns that error and a nil
\* reloader at once: it makes no call to the file system, the ACME client, a
\* hook or a goroutine, builds no reloader and leaves the file system as it was
C3_RejectedDoesNothing ==
    Rejected =>
        /\ pc[1] \in {"Init", "done"}
        /\ trace = <<>>
        /\ disk = disk0
        /\ lv[1] = NoLocals
        /\ Returned => ret[1].reloader = NilReloader /\ ret[1].err # NoErr

C3_Witness ==
    /\ Rejected
    /\ Returned
    /\ cfg0[1].CacheDir = <<"letsencrypt">>
    /\ ~disk[<<"letsencrypt">>].exists
    /\ ret[1].err = errNoDomains

\* the cache directory and the requested domains of the call
CacheDir0 == cfg0[1].CacheDir

Requested == Range(cfg0[1].Domains)

Accepted == ValidConfig(cfg0[1])

\* a certificate is cached in dir when Init is called, for other domains than requested
Drift0(dir) ==
    /\ certCached(disk0, dir)
    /\ disk0[dir].cert.doms # Requested

\* some event of op1 comes before event j
Before(op1, j) == \E i \in EventsOk(op1, TRUE) : i < j

\* C4: with a cached certificate for other domains than requested, due for
\* renewal or not, Init in non-local mode builds no reloader and runs no
\* renewal check before it has sent the ACME obtain request for the requested
\* domains, and it returns without that request only when the ACME user or
\* client could not be set up (or the log file not opened); in local mode it
\* builds no reloader before it has generated a new local certificate
C4_DriftObtainsFirst ==
    /\ Accepted /\ ~cfg0[1].Local /\ Drift0(CacheDir0) =>
          /\ \A j \in Events("NewCertReloader") \cup Events("renew") :
                \E i \in Events("Obtain") : i < j /\ trace[i].doms = Requested
          /\ \A i \in Events("Obtain") : trace[i].doms = Requested
          /\ Returned /\ Events("Obtain") = {} =>
                /\ ret[1].reloader = NilReloader
                /\ \/ EventsOk("getUser", FALSE) # {}
                   \/ EventsOk("createClient", FALSE) # {}
                   \/ EventsOk("os.OpenFile", FALSE) # {}
    /\ Accepted /\ cfg0[1].Local /\ Drift0(Join(CacheDir0, "local")) =>
          /\ \A j \in Events("NewCertReloader") :
                \E i \in Events("createLocalCert") : i < j /\ trace[i].doms = Requested
          /\ Returned /\ Events("createLocalCert") = {} => EventsOk("os.OpenFile", FALSE) # {}

\* drift on a certificate that is not due, and a reloader returned after the obtain
C4_Witness ==
    /\ Accepted /\ ~cfg0[1].Local /\ Drift0(CacheDir0)
    /\ ~disk0[CacheDir0].cert.due
    /\ Returned
    /\ ~ret[1].reloader.nil
    /\ ret[1].reloader.doms = Requested
    /\ EventsOk("Obtain", TRUE) # {}

FreshStart == Accepted /\ ~cfg0[1].Local /\ ~certCached(disk0, CacheDir0)

\* C5: started in non-local mode on an empty cache, Init sends at most one
\* obtain request; it builds the reloader only after the obtained certificate
\* has been saved to the cache directory, builds it once, from cert.pem and
\* key.pem of that directory, and returns what that construction returned: a
\* reloader serving the certificate just obtained for the requested domains
C5_FreshObtainSaveReload ==
    FreshStart =>
        /\ Cardinality(Events("Obtain")) <= 1
        /\ \A j \in Events("NewCertReloader") :
              /\ Events("NewCertReloader") = {j}
              /\ \E o \in EventsOk("Obtain", TRUE), s \in EventsOk("saveCertToDisk", TRUE) :
                    /\ o < s /\ s < j
                    /\ trace[s].path = CacheDir0 /\ trace[s].doms = Requested
              /\ trace[j].path = Join(CacheDir0, certFileName)
              /\ Returned =>
                    /\ ret[1].reloader.nil = ~trace[j].ok
                    /\ ret[1].reloader.doms = trace[j].doms
                    /\ ~ret[1].reloader.nil =>
                          /\ ret[1].err = NoErr
                          /\ ret[1].reloader.doms = Requested
                          /\ ret[1].reloader.certPath = Join(CacheDir0, certFileName)
                          /\ ret[1].reloader.keyPath = Join(CacheDir0, keyFileName)
        /\ Returned /\ EventsOk("saveCertToDisk", TRUE) # {} =>
              /\ Cardinality(Events("Obtain")) = 1
              /\ Cardinality(Events("NewCertReloader")) = 1
              /\ certCached(disk, CacheDir0)
              /\ disk[CacheDir0].cert.doms = Requested

C5_Witness ==
    /\ FreshStart
    /\ ~disk0[CacheDir0].exists
    /\ Returned
    /\ ~ret[1].reloader.nil
    /\ ret[1].err = NoErr
    /\ Cardinality(Events("Obtain")) = 1
    /\ EventsOk("saveCertToDisk", TRUE) # {}

\* C6: when nothing is cached (non-local mode) and the obtain request fails,
\* Init saves nothing, builds no reloader, starts no renewal routine, and
\* returns a nil reloader with an error
C6_FreshObtainFails ==
    FreshStart /\ EventsOk("Obtain", FALSE) # {} =>
        /\ Events("saveCertToDisk") = {}
        /\ Events("NewCertReloader") = {}
        /\ Events("go renewalRoutine") = {}
        /\ disk[CacheDir0].cert = disk0[CacheDir0].cert
        /\ disk[CacheDir0].res = disk0[CacheDir0].res
        /\ Returned
        /\ ret[1].reloader = NilReloader
        /\ ret[1].err # NoErr

C6_Witness ==
    /\ FreshStart
    /\ EventsOk("Obtain", FALSE) # {}
    /\ Returned
    /\ ret[1].err = "simplecert: failed to obtain cert"

\* Init is inside loadStoredCert, or has returned from it
OnCachedPath == Accepted /\ ~cfg0[1].Local /\ Events("os.ReadFile") # {}

RenewFailed == OnCachedPath /\ EventsOk("renew", FALSE) # {}

\* C7: when the startup renewal of the cached certificate fails and a
\* FailedToRenewCertificate hook is set, Init calls the hook once, with the
\* renewal error, starts the renewal routine and returns the reloader it built
\* from the cached files before the renewal (serving the old certificate when
\* that construction succeeded); when no hook is set, Init calls no hook,
\* starts no renewal routine and returns a nil reloader with an error
C7_StartupRenewalFails ==
    RenewFailed =>
        /\ cfg0[1].FailedToRenewCertificate /\ Returned =>
              /\ Cardinality(Events("FailedToRenewCertificate")) = 1
              /\ \A h \in Events("FailedToRenewCertificate") :
                    /\ trace[h].arg = lv[1].errRenew
                    /\ trace[h].arg # NoErr
                    /\ \E r \in EventsOk("renew", FALSE) : r < h
              /\ Cardinality(Events("go renewalRoutine")) = 1
              /\ ret[1].reloader = lv[1].certReloader
              /\ ret[1].err = lv[1].errReloader
              /\ \A j \in EventsOk("NewCertReloader", TRUE) :
                    /\ ~ret[1].reloader.nil
                    /\ ret[1].err = NoErr
                    /\ ret[1].reloader.doms = disk0[CacheDir0].cert.doms
                    /\ \A r \in Events("renew") : j < r
        /\ ~cfg0[1].FailedToRenewCertificate =>
              /\ Events("FailedToRenewCertificate") = {}
              /\ Events("go renewalRoutine") = {}
              /\ pc[1] \in {"L211", "done"}
              /\ Returned => ret[1].reloader = NilReloader /\ ret[1].err # NoErr

\* the hook is set, the renewal failed, the old certificate is served
C7_Witness ==
    /\ RenewFailed
    /\ cfg0[1].FailedToRenewCertificate
    /\ Returned
    /\ ~ret[1].reloader.nil
    /\ Events("FailedToRenewCertificate") # {}
    /\ Events("go renewalRoutine") # {}

\* C8: on the cached-certificate path the startup renewal check runs at most
\* once, on the resource loaded from CertResource.json, and the renewal
\* routine is started only after that check has returned; once the path has
\* built its reloader and returned, the check has run exactly once
C8_RenewOnceBeforeRoutine ==
    OnCachedPath =>
        /\ Cardinality(Events("renew")) <= 1
        /\ \A r \in Events("renew") :
              /\ trace[r].doms = lv[1].cr.doms
              /\ trace[r].doms = disk0[CacheDir0].cert.doms
        /\ \A g \in Events("go renewalRoutine") :
              \E r \in Events("renew") : r < g
        /\ Returned /\ Events("NewCertReloader") # {} =>
              Cardinality(Events("renew")) = 1

\* the check ran, then the routine was started
C8_Witness ==
    /\ OnCachedPath
    /\ Returned
    /\ Events("renew") # {}
    /\ Events("go renewalRoutine") # {}
    /\ disk0[CacheDir0].cert.due

\* C9: Init does not modify the Config it was passed, so CacheDir is the same
\* after Init as before, in local mode too
C9_ConfigNotModified ==
    Accepted => cfgs[1] = cfg0[1]

LocalStart == Accepted /\ cfg0[1].Local

LocalDir0 == Join(CacheDir0, "local")

\* C10: in local mode every call of Init on certificate and key files is on
\* <cacheDir>/local and the files of <cacheDir> itself stay as they were; Init
\* makes no ACME user, client or obtain call and starts no renewal routine; and
\* once it is past the cache check it has generated a local certificate
\* exactly when none was cached in <cacheDir>/local or the cached one was for
\* other domains than requested
C10_LocalMode ==
    LocalStart =>
        /\ \A i \in 1..Len(trace) :
              /\ trace[i].op \in {"certCached"} => trace[i].path = LocalDir0
              /\ trace[i].op \in {"domainsChanged", "createLocalCert", "NewCertReloader"}
                    => Dir(trace[i].path) = LocalDir0
              /\ trace[i].op \notin {"getUser", "createClient", "Obtain", "go renewalRoutine",
                                     "saveCertToDisk", "os.ReadFile", "renew"}
        /\ disk[CacheDir0].cert = disk0[CacheDir0].cert
        /\ disk[CacheDir0].key = disk0[CacheDir0].key
        /\ disk[CacheDir0].res = disk0[CacheDir0].res
        /\ pc[1] \in {"L92", "L97"} \/ (Returned /\ Events("NewCertReloader") # {}) =>
              Cardinality(Events("createLocalCert")) =
                  IF ~certCached(disk0, LocalDir0) \/ disk0[LocalDir0].cert.doms # Requested
                  THEN 1 ELSE 0

\* a certificate is cached in <cacheDir> and in <cacheDir>/local, the local
\* one for other domains: a new local certificate is generated and served
C10_Witness ==
    /\ LocalStart
    /\ certCached(disk0, CacheDir0)
    /\ Drift0(LocalDir0)
    /\ Returned
    /\ ~ret[1].reloader.nil
    /\ Dir(ret[1].reloader.certPath) = LocalDir0
    /\ Events("createLocalCert") # {}

NonLocalStart == Accepted /\ ~cfg0[1].Local

\* C11: on every non-local path of Init, the fresh acquisition as well as the
\* cached certificate, the reloader is built before the renewal routine is
\* started
C11_ReloaderBeforeRoutine ==
    NonLocalStart =>
        \A g \in Events("go renewalRoutine") :
            \E j \in Events("NewCertReloader") : j < g

DriftFallback ==
    /\ NonLocalStart
    /\ Drift0(CacheDir0)
    /\ EventsOk("Obtain", FALSE) # {}

\* C12: when a certificate is cached for other domains than requested and the
\* obtain request for the requested domains fails, Init does not return the
\* acquisition error: it goes on into loadStoredCert (read CertResource.json,
\* build the reloader, run the renewal check, start the renewal routine, each
\* after the failed request) and returns what loadStoredCert returns: one of
\* that path's own errors, or a reloader that serves the certificate cached
\* before, for the previous domains and not for Config.Domains
C12_DriftFallbackServesOldCert ==
    DriftFallback =>
        /\ pc[1] # "L187" => Events("os.ReadFile") # {}
        /\ \A o \in Events("Obtain") :
              \A i \in 1..Len(trace) :
                 trace[i].op \in {"os.ReadFile", "NewCertReloader", "renew", "go renewalRoutine"}
                    => o < i
        /\ Events("saveCertToDisk") = {}
        /\ Returned =>
              /\ ret[1].err # "simplecert: failed to obtain cert"
              /\ ret[1].reloader.nil =>
                    ret[1].err \in
                       {"simplecert: failed to read CertResource.json from disk",
                        "simplecert: failed to unmarshal certificate resource",
                        "simplecert: failed to renew cached cert on startup and no failedToRenewCert handler is configured",
                        lv[1].errReloader} \ {NoErr}
              /\ ~ret[1].reloader.nil =>
                    /\ ret[1].reloader = lv[1].certReloader
                    /\ ret[1].reloader.doms = disk0[CacheDir0].cert.doms
                    /\ ret[1].reloader.doms # Requested
                    /\ Events("renew") # {}
                    /\ Events("go renewalRoutine") # {}

C12_Witness ==
    /\ DriftFallback
    /\ Returned
    /\ ~ret[1].reloader.nil
    /\ ret[1].err = NoErr
    /\ ret[1].reloader.doms = {"a.com"}
    /\ Requested = {"a.com", "b.com"}

\* loadStoredCert was entered and CertResource.json is unreadable or malformed
ResourceBroken ==
    /\ OnCachedPath
    /\ disk0[CacheDir0].res \in {"unreadable", "bad"}

\* C13: on the cached-certificate path, when CertResource.json cannot be read
\* or cannot be deserialized, Init builds no reloader, attempts no renewal,
\* calls no hook, starts no renewal routine, sends no obtain request and saves
\* nothing after the failed load, and returns a nil reloader with an error
C13_BrokenResourceAborts ==
    ResourceBroken =>
        /\ Events("NewCertReloader") = {}
        /\ Events("renew") = {}
        /\ Events("FailedToRenewCertificate") = {}
        /\ Events("go renewalRoutine") = {}
        /\ Events("saveCertToDisk") = {}
        /\ \A r \in Events("os.ReadFile") :
              \A i \in 1..Len(trace) : i > r => trace[i].op \notin {"getUser", "createClient", "Obtain"}
        /\ ~Drift0(CacheDir0) => Events("Obtain") = {}
        /\ pc[1] \in {"L194", "done"}
        /\ disk[CacheDir0] = [disk0[CacheDir0] EXCEPT !.log = TRUE]
        /\ Returned =>
              /\ ret[1].reloader = NilReloader
              /\ ret[1].err \in {"simplecert: failed to read CertResource.json from disk",
                                 "simplecert: failed to unmarshal certificate resource"}

\* the record was read and did not deserialize
C13_Witness ==
    /\ ResourceBroken
    /\ disk0[CacheDir0].res = "bad"
    /\ ~Drift0(CacheDir0)
    /\ Returned
    /\ ret[1].err = "simplecert: failed to unmarshal certificate resource"

\* the directories of caller p's own Config: its cache directory and, in local
\* mode, the local subfolder
OwnDirs(p) ==
    {cfg0[p].CacheDir} \cup {Join(cfg0[p].CacheDir, "local") : x \in {y \in {1} : cfg0[p].Local}}

\* C14: of two Init calls with different Configs, interleaved in any order,
\* each works on its own Config only: its cache checks, resource loads, ACME
\* requests and saves use its own CacheDir and Domains
C14_CallsUseOwnConfig ==
    \A i \in 1..Len(trace) :
        LET e == trace[i] IN
        /\ e.op \in {"ensureCacheDirExists", "certCached", "saveCertToDisk", "renew"}
              => e.path \in OwnDirs(e.p)
        /\ e.op \in {"os.OpenFile", "os.ReadFile", "domainsChanged", "createLocalCert",
                     "NewCertReloader"}
              => Dir(e.path) \in OwnDirs(e.p)
        /\ e.op \in {"Obtain", "domainsChanged", "createLocalCert"}
              => e.doms = Range(cfg0[e.p].Domains)

\* C15: whenever Init returns an error, that call has started no renewal
\* routine; also when saving the certificate fails and when building the
\* reloader fails, after a fresh acquisition or on the cached-certificate path
C15_ErrorMeansNoRoutine ==
    Returned /\ ret[1].err # NoErr => Events("go renewalRoutine") = {}

\* C16: on every path of one Init call, the drift path and its fallback
\* included, Init sends at most one obtain request and starts the renewal
\* routine at most once; with a cached certificate for the requested domains
\* Init sets up no ACME client and sends no obtain request
C16_AtMostOneObtainAndRoutine ==
    Accepted =>
        /\ Cardinality(Events("Obtain")) <= 1
        /\ Cardinality(Events("go renewalRoutine")) <= 1
        /\ ~cfg0[1].Local /\ certCached(disk0, CacheDir0) /\ ~Drift0(CacheDir0) =>
              /\ Events("Obtain") = {}
              /\ Events("getUser") = {}
              /\ Events("createClient") = {}
              /\ pc[1] \notin {"L128", "L134", "L148", "L165", "L173", "L175"}

\* the drift fallback: one failed obtain request, one renewal routine
C16_Witness ==
    /\ DriftFallback
    /\ Returned
    /\ Cardinality(Events("Obtain")) = 1
    /\ Cardinality(Events("go renewalRoutine")) = 1
    /\ Events("renew") # {}

====
